---- MODULE Spec2Model ----
(***************************************************************************)
(* Model of the template editor (TemplateEditor.tsx), its component store  *)
(* (ComponentStore) and the part of the fill modal (FillTemplateModal)     *)
(* that maps sections to components.                                       *)
(*                                                                         *)
(* Rich content is a sequence of nodes.  A node is either a text run or a  *)
(* span element that stands for a component marker.  The string a section  *)
(* record holds (section.content) is the serialisation of such a sequence  *)
(* (innerHTML): the same nodes without their event listeners.              *)
(*                                                                         *)
(* State updates of one handler are applied together and followed by the   *)
(* render and the effects they trigger (automatic batching).               *)
(***************************************************************************)
EXTENDS Integers, Sequences, FiniteSets, TLC

(***************************************************************************)
(* Bounds of the model.                                                    *)
(***************************************************************************)
MaxSteps == 3     \* actions of the author in one behaviour

(***************************************************************************)
(* JavaScript values.                                                      *)
(***************************************************************************)
Undefined == "<undefined>"

\* x || '' for a string or undefined x
OrEmpty(x) == IF x = Undefined THEN "" ELSE x

\* An optional value: <<>> is undefined, <<v>> is v.
Some(v) == <<v>>
None == <<>>

SeqToSet(s) == {s[i] : i \in 1..Len(s)}

\* The names generateSectionId and generateComponentId produce: the counter
\* makes each one different from every earlier one.
SectionIdNames ==
    <<"section-0", "section-1", "section-2", "section-3", "section-4", "section-5",
      "section-6", "section-7">>
ComponentIdNames ==
    <<"component-0", "component-1", "component-2", "component-3", "component-4",
      "component-5", "component-6", "component-7">>

generateSectionId(counter) == SectionIdNames[counter + 1]
generateComponentId(counter) == ComponentIdNames[counter + 1]

(***************************************************************************)
(* Component metadata and the component store.                             *)
(***************************************************************************)
TextField == "text-field"
Dropdown == "dropdown"
MultiTextField == "multi-text-field"

\* attributes.options: an array (k = "seq"), missing (k = "absent") or a
\* value that is no array (k = "nonseq").
OptSeq(v) == [k |-> "seq", v |-> v]
OptAbsent == [k |-> "absent", v |-> <<>>]
OptNonSeq == [k |-> "nonseq", v |-> <<>>]

DropdownDefaults == OptSeq(<<"Option 1", "Option 2", "Option 3">>)
MultiDefaults == OptSeq(<<"Item 1", "Item 2", "Item 3">>)
DefaultOptions(type) == IF type = Dropdown THEN DropdownDefaults ELSE MultiDefaults

Component(id, type, label, variableName, options) ==
    [id |-> id, type |-> type, label |-> label,
     variableName |-> variableName, options |-> options]

\* The store is a Map from id to metadata; it is modelled as a function.
EmptyStore == [i \in {} |-> Component("", "", "", "", OptAbsent)]

addComponent(st, metadata) ==
    [i \in DOMAIN st \cup {metadata.id} |->
        IF i = metadata.id THEN metadata ELSE st[i]]

removeComponentFromStore(st, id) == [i \in DOMAIN st \ {id} |-> st[i]]

clearComponents(st) == EmptyStore

RECURSIVE addAll(_, _)
addAll(st, comps) ==
    IF comps = <<>> THEN st ELSE addAll(addComponent(st, Head(comps)), Tail(comps))

(***************************************************************************)
(* Content nodes.                                                          *)
(***************************************************************************)
\* A click listener on a marker's remove affordance closes over the
\* isLocked and components values of the render that created it.
NoListener == [on |-> FALSE, locked |-> FALSE, comps |-> <<>>]
Listener(locked, comps) == [on |-> TRUE, locked |-> locked, comps |-> comps]

Text(ch) ==
    [kind |-> "text", id |-> ch, dc |-> FALSE, del |-> FALSE, lab |-> "",
     lsn |-> NoListener]

\* A span with element id `id`; dc: it carries data-component (and data-id);
\* del: it holds the remove affordance; lab: the text of its label.
Span(id, dc, del, lab) ==
    [kind |-> "span", id |-> id, dc |-> dc, del |-> del, lab |-> lab,
     lsn |-> NoListener]

Nbsp == Text("&nbsp;")

\* element.innerHTML (read): listeners are not part of the markup.
innerHTML(nodes) == [i \in 1..Len(nodes) |-> [nodes[i] EXCEPT !.lsn = NoListener]]

\* '' is the only falsy content string
IsEmptyString(content) == content = <<>>

\* !content || content.trim() === ''
IsWhitespace(node) == node.kind = "text" /\ node.id = " "
IsBlank(content) == \A i \in 1..Len(content) : IsWhitespace(content[i])

\* querySelectorAll('[data-component]') and getAttribute('data-id')
IsMarker(node) == node.kind = "span" /\ node.dc /\ node.id # ""
scanIds(nodes) ==
    LET marks == SelectSeq(nodes, IsMarker)
    IN  [i \in 1..Len(marks) |-> marks[i].id]

\* the variant of processElement that adds a remove affordance, with a new
\* listener, whether or not the span already holds one
processElementAnew(node, st, lsn) ==
    IF node.id \notin DOMAIN st THEN node
    ELSE [node EXCEPT !.dc = TRUE,
                      !.lab = st[node.id].label,
                      !.del = TRUE,
                      !.lsn = lsn]

\* processElement: re-tag the span, take the label from the store and add
\* the remove affordance (with a new listener) when it is missing.
processElement(node, st, lsn) ==
    IF node.id \notin DOMAIN st THEN node
    ELSE [node EXCEPT !.dc = TRUE,
                      !.lab = st[node.id].label,
                      !.del = TRUE,
                      !.lsn = IF node.del THEN node.lsn ELSE lsn]

\* processImportedComponents: first every element that carries
\* data-component, then the first span of each remaining id the store knows.
processImportedComponents(nodes, st, lsn) ==
    LET processedIds == {nodes[i].id : i \in {j \in 1..Len(nodes) : IsMarker(nodes[j])}}
        ByElementId(i) ==
            /\ nodes[i].kind = "span"
            /\ ~IsMarker(nodes[i])
            /\ nodes[i].id # ""
            /\ nodes[i].id \notin processedIds
            /\ nodes[i].id \in DOMAIN st
            /\ \A j \in 1..(i - 1) :
                  ~(nodes[j].kind = "span" /\ ~IsMarker(nodes[j]) /\ nodes[j].id = nodes[i].id)
    IN  [i \in 1..Len(nodes) |->
            IF IsMarker(nodes[i]) \/ ByElementId(i)
            THEN processElement(nodes[i], st, lsn)
            ELSE nodes[i]]

(***************************************************************************)
(* Sections.                                                               *)
(***************************************************************************)
Section(id, title, content, enabled) ==
    [id |-> id, title |-> title, content |-> content, enabled |-> enabled]

SectionTitleNames ==
    <<"Section 1", "Section 2", "Section 3", "Section 4", "Section 5", "Section 6",
      "Section 7", "Section 8", "Section 9", "Section 10">>

sectionIds(secs) == {secs[i].id : i \in 1..Len(secs)}

MsgNone == "<null>"
MsgLastSection == "Cannot remove the last section"
MsgClickInside == "Click inside a section first to insert a field"
MsgExported == "Template exported successfully"
MsgImported == "Template imported successfully"
MsgInvalidFormat == "Error importing template. Invalid format."
MsgReadError == "Error reading template file"

(***************************************************************************)
(* The interchange file.  JSON.stringify writes every field of a section   *)
(* or component that is not undefined, and JSON.parse gives back undefined *)
(* for a field the text does not hold.                                     *)
(***************************************************************************)
\* An entry of the file's components array (null: the entry is JSON null).
ComponentEntry(id, type, label, variableName, options) ==
    [isNull |-> FALSE, id |-> id, type |-> type, label |-> label,
     variableName |-> variableName, options |-> options]
NullComponentEntry ==
    [isNull |-> TRUE, id |-> Undefined, type |-> Undefined, label |-> Undefined,
     variableName |-> Undefined, options |-> OptAbsent]

\* An entry of the file's sections array; content and enabled are optional.
SectionEntry(id, title, content, enabled) ==
    [isNull |-> FALSE, id |-> id, title |-> title, content |-> content,
     enabled |-> enabled]
NullSectionEntry ==
    [isNull |-> TRUE, id |-> Undefined, title |-> Undefined, content |-> None,
     enabled |-> None]

\* root: "object", "null" (the text is JSON null) or "unparsable";
\* sections.k: "seq", "absent", "falsy" (null, 0, "", false) or "truthy" (a
\* value that is no array and not falsy); components.k: "seq", "absent" or
\* "nonseq".
File(root, sectionsKind, secs, componentsKind, comps) ==
    [root |-> root,
     sections |-> [k |-> sectionsKind, v |-> secs],
     components |-> [k |-> componentsKind, v |-> comps]]

stringifyComponent(c) ==
    ComponentEntry(c.id, c.type, c.label, c.variableName, c.options)

stringifySection(s) ==
    SectionEntry(s.id, s.title, Some(s.content), Some(s.enabled))

\* JSON.parse(JSON.stringify(templateData))
stringifyTemplateData(data) ==
    File("object",
         "seq", [i \in 1..Len(data.sections) |-> stringifySection(data.sections[i])],
         "seq", [i \in 1..Len(data.components) |-> stringifyComponent(data.components[i])])

(***************************************************************************)
(* importTemplate: validation and sanitization.                            *)
(***************************************************************************)
\* JSON.parse fails, or reading a property of null fails
parseThrows(file) == file.root # "object"

\* !templateData.sections || !Array.isArray(templateData.components)
invalidStructure(file) ==
    \/ file.sections.k \in {"absent", "falsy"}
    \/ file.components.k # "seq"

\* Ensure options is always an array (dropdown and multi-text-field)
sanitizeOptions(type, options) ==
    IF type \in {Dropdown, MultiTextField} /\ options.k # "seq"
    THEN DefaultOptions(type)
    ELSE options

sanitizeComponent(entry) ==
    Component(entry.id, entry.type, OrEmpty(entry.label),
              OrEmpty(entry.variableName),
              sanitizeOptions(entry.type, entry.options))

\* templateData.components.map(...): reading a field of a null entry throws
componentsThrow(entries) == \E i \in 1..Len(entries) : entries[i].isNull

sanitizeComponents(entries) ==
    [i \in 1..Len(entries) |-> sanitizeComponent(entries[i])]

\* templateData.sections.map(...): the entries before the first null one are
\* sanitized (each may take a generated id), then the null entry throws.
FirstNull(entries) ==
    IF \E i \in 1..Len(entries) : entries[i].isNull
    THEN CHOOSE i \in 1..Len(entries) :
            entries[i].isNull /\ \A j \in 1..(i - 1) : ~entries[j].isNull
    ELSE Len(entries) + 1

sectionsThrow(entries) == FirstNull(entries) <= Len(entries)

NeedsId(entry) == entry.id = Undefined \/ entry.id = ""

\* how many ids generateSectionId hands out before entry i
IdsBefore(entries, i) == Cardinality({j \in 1..(i - 1) : NeedsId(entries[j])})

\* a sanitization that enables every imported section
sanitizeSectionEnabled(entry, counter) ==
    Section(IF NeedsId(entry) THEN generateSectionId(counter) ELSE entry.id,
            OrEmpty(entry.title),
            IF entry.content = None THEN <<>> ELSE entry.content[1],
            TRUE)

sanitizeSection(entry, counter) ==
    Section(IF NeedsId(entry) THEN generateSectionId(counter) ELSE entry.id,
            OrEmpty(entry.title),
            IF entry.content = None THEN <<>> ELSE entry.content[1],
            IF entry.enabled = None THEN TRUE ELSE entry.enabled[1])

sanitizeSections(entries, counter) ==
    [i \in 1..Len(entries) |->
        sanitizeSection(entries[i], counter + IdsBefore(entries, i))]

(***************************************************************************)
(* State.                                                                  *)
(***************************************************************************)
VARIABLES
    sections,             \* useState<Section[]>
    components,           \* useState<ComponentMetadata[]>
    isLocked,             \* useState(false)
    errorMessage,         \* useState<string | null>
    initialized,          \* useState(false)
    fillModalOpen,        \* useState(false)
    sectionIdCounter,     \* let sectionIdCounter
    componentIdCounter,   \* let componentIdCounter
    store,                \* componentStore.components
    dom,                  \* the section elements: section id -> child nodes
    timers,               \* the pending 200 ms timeouts, oldest first
    sectionStates,        \* FillTemplateModal: useState<SectionState>
    sectionComponentsMap, \* FillTemplateModal: useState<SectionComponentsMap>
    fieldValues,          \* FillTemplateModal: useState<FieldValues>
    formStep,             \* FillTemplateModal: useState<'filling' | 'preview'>
    previewContent,       \* FillTemplateModal: useState('')
    clipboard,            \* the text last written with navigator.clipboard.writeText
    steps                 \* actions the author has taken so far

vars ==
    <<sections, components, isLocked, errorMessage, initialized, fillModalOpen,
      sectionIdCounter, componentIdCounter, store, dom, timers, sectionStates,
      sectionComponentsMap, fieldValues, formStep, previewContent, clipboard,
      steps>>

editorState == <<sections, components, isLocked, initialized>>
modalState ==
    <<sectionStates, sectionComponentsMap, fieldValues, formStep, previewContent,
      clipboard>>

(***************************************************************************)
(* Reading the document: the visible components, export and snapshot.      *)
(***************************************************************************)
\* document.getElementById(section.id): the element exists once rendered
hasElement(d, id) == id \in DOMAIN d

RECURSIVE getOrderedVisibleComponentIds(_, _)
getOrderedVisibleComponentIds(secs, d) ==
    IF secs = <<>> THEN <<>>
    ELSE (IF hasElement(d, Head(secs).id) THEN scanIds(d[Head(secs).id]) ELSE <<>>)
         \o getOrderedVisibleComponentIds(Tail(secs), d)

\* allComponents.find(c => c.id === id): <<component>>, or <<>> for undefined
find(st, id) == IF id \in DOMAIN st THEN Some(st[id]) ELSE None

\* what a list holds where find returned undefined
UndefinedComponent ==
    Component(Undefined, Undefined, Undefined, Undefined, OptAbsent)

\* ids.map(id => allComponents.find(c => c.id === id)), nothing filtered out
findEvery(ids, st) ==
    [i \in 1..Len(ids) |->
        IF find(st, ids[i]) = None THEN UndefinedComponent ELSE find(st, ids[i])[1]]

\* ids.map(id => allComponents.find(c => c.id === id)).filter(c => c !== undefined)
findComponents(ids, st) ==
    LET looked == [i \in 1..Len(ids) |-> find(st, ids[i])]
        defined == SelectSeq(looked, LAMBDA c : c # None)
    IN  [i \in 1..Len(defined) |-> defined[i][1]]

\* every component of the store, in the order of the id pool
everyStoredComponent(secs, d, st) ==
    findComponents(<<"c1", "c2">> \o ComponentIdNames, st)

orderedVisibleComponents(secs, d, st) ==
    findComponents(getOrderedVisibleComponentIds(secs, d), st)

\* document.getElementById(section.id)?.innerHTML || section.content
exportedContent(section, d) ==
    IF hasElement(d, section.id) /\ ~IsEmptyString(innerHTML(d[section.id]))
    THEN innerHTML(d[section.id])
    ELSE section.content

\* the templateData object exportTemplate builds
templateData(secs, d, st) ==
    [sections |-> [i \in 1..Len(secs) |->
                      [secs[i] EXCEPT !.content = exportedContent(secs[i], d)]],
     components |-> orderedVisibleComponents(secs, d, st)]

\* sectionElement ? sectionElement.innerHTML : section.content
snapshotContent(section, d) ==
    IF hasElement(d, section.id) THEN innerHTML(d[section.id]) ELSE section.content

getEditorData(secs, d, st) ==
    [sections |-> [i \in 1..Len(secs) |->
                      [secs[i] EXCEPT !.content = snapshotContent(secs[i], d)]],
     components |-> orderedVisibleComponents(secs, d, st)]

(***************************************************************************)
(* Render and the effect that injects section content (lines 75-127).      *)
(***************************************************************************)
\* React keeps the element of a section whose key (its id) stays and mounts
\* an empty element for a new key.
render(secs, d) ==
    [id \in sectionIds(secs) |-> IF id \in DOMAIN d THEN d[id] ELSE <<>>]

\* injectSectionContent, from section i on: [dom, done], done being
\* injectionCompleted.
RECURSIVE injectSectionContent(_, _, _, _, _)
injectSectionContent(secs, i, d, st, lsn) ==
    IF i > Len(secs) THEN [dom |-> d, done |-> FALSE]
    ELSE LET s == secs[i]
             differs == /\ ~IsBlank(s.content)
                        /\ hasElement(d, s.id)
                        /\ innerHTML(d[s.id]) # s.content
             d1 == IF differs
                   THEN [d EXCEPT ![s.id] = processImportedComponents(s.content, st, lsn)]
                   ELSE d
             rest == injectSectionContent(secs, i + 1, d1, st, lsn)
         IN  [dom |-> rest.dom, done |-> differs \/ rest.done]

EffectTimer(secs, lsn) == [kind |-> "effect", secs |-> secs, lsn |-> lsn]
ImportTimer(secs, lsn) == [kind |-> "import", secs |-> secs, lsn |-> lsn]

\* clearTimeout(timeoutId) in the effect's cleanup
clearEffectTimer(tms) == SelectSeq(tms, LAMBDA t : t.kind # "effect")

\* What follows setSections(secs): the render, the cleanup of the previous
\* effect and the effect itself.  A delayed attempt is pending only when the
\* immediate one completed no injection.  [dom, timers]
sectionsEffect(secs, d, st, locked, comps, tms) ==
    LET d0 == render(secs, d)
        lsn == Listener(locked, comps)
        now == injectSectionContent(secs, 1, d0, st, lsn)
        cleared == clearEffectTimer(tms)
    IN  IF Len(secs) = 0
        THEN [dom |-> d0, timers |-> cleared]
        ELSE [dom |-> now.dom,
              timers |-> IF now.done THEN cleared
                         ELSE Append(cleared, EffectTimer(secs, lsn))]

\* the direct injection importTemplate schedules (lines 668-679)
RECURSIVE directInjection(_, _, _, _, _)
directInjection(secs, i, d, st, lsn) ==
    IF i > Len(secs) THEN d
    ELSE LET s == secs[i]
             d1 == IF hasElement(d, s.id) /\ ~IsEmptyString(s.content)
                   THEN [d EXCEPT ![s.id] = processImportedComponents(s.content, st, lsn)]
                   ELSE d
         IN  directInjection(secs, i + 1, d1, st, lsn)

(***************************************************************************)
(* FillTemplateModal: the section -> components mapping.                   *)
(***************************************************************************)
LastWithId(secs, id) ==
    CHOOSE i \in 1..Len(secs) :
        secs[i].id = id /\ \A j \in (i + 1)..Len(secs) : secs[j].id # id

\* components.filter(c => sectionComponentIds.includes(c.id)
\*                        && allComponentIds.includes(c.id))
sectionComponentsOf(section, comps) ==
    LET sectionComponentIds == SeqToSet(scanIds(section.content))
        allComponentIds == {comps[i].id : i \in 1..Len(comps)}
    IN  SelectSeq(comps, LAMBDA c : c.id \in sectionComponentIds /\ c.id \in allComponentIds)

createSectionComponentsMap(secs, comps) ==
    [id \in sectionIds(secs) |-> sectionComponentsOf(secs[LastWithId(secs, id)], comps)]

initialSectionStates(secs) ==
    [id \in sectionIds(secs) |-> secs[LastWithId(secs, id)].enabled]

(***************************************************************************)
(* FillTemplateModal: field values (lines 476-543).                        *)
(***************************************************************************)
\* A field value is a string or an array of booleans.
StringValue(s) == [k |-> "string", s |-> s, flags |-> <<>>]
FlagsValue(flags) == [k |-> "flags", s |-> "", flags |-> flags]

NoFieldValues == [key \in {} |-> StringValue("")]

\* componentAttributes.variableName || component.id
keyOf(component) ==
    IF component.variableName \in {"", Undefined}
    THEN component.id
    ELSE component.variableName

\* Array.isArray(componentAttributes.options) ? componentAttributes.options : []
optionsOf(component) ==
    IF component.options.k = "seq" THEN component.options.v ELSE <<>>

initialValue(component) ==
    IF component.type = Dropdown
    THEN StringValue(IF Len(optionsOf(component)) > 0 THEN optionsOf(component)[1] ELSE "")
    ELSE IF component.type = MultiTextField
    THEN FlagsValue([i \in 1..Len(optionsOf(component)) |-> FALSE])
    ELSE StringValue("")

\* the keys of the map in the order Object.values visits them: the ids of
\* the sections in the order of their first occurrence
RECURSIVE mapOrder(_)
mapOrder(secs) ==
    IF secs = <<>> THEN <<>>
    ELSE LET before == mapOrder(SubSeq(secs, 1, Len(secs) - 1))
             id == secs[Len(secs)].id
         IN  IF id \in SeqToSet(before) THEN before ELSE Append(before, id)

\* Object.values(componentMap) flattened: every component of every section
RECURSIVE mapComponents(_, _)
mapComponents(order, componentMap) ==
    IF order = <<>> THEN <<>>
    ELSE componentMap[Head(order)] \o mapComponents(Tail(order), componentMap)

\* initialValues[key] = ...: a later component overwrites an earlier one
\* that has the same key
initializeFieldValues(secs, componentMap) ==
    LET all == mapComponents(mapOrder(secs), componentMap)
        last(key) == CHOOSE i \in 1..Len(all) :
                        keyOf(all[i]) = key /\ \A j \in (i + 1)..Len(all) : keyOf(all[j]) # key
    IN  [key \in {keyOf(all[i]) : i \in 1..Len(all)} |-> initialValue(all[last(key)])]

(***************************************************************************)
(* FillTemplateModal: the preview (lines 546-711).  A string of the        *)
(* preview is a sequence of nodes, as a section's content is; the text     *)
(* {name} is one text node.                                                *)
(***************************************************************************)
\* the names a reference in the text of a document or of a value may carry
ReferenceNames == {"name", "status", "picks", "nobody", "constructor", "c1", "c2", "c3"}
Reference(name) == "{" \o name \o "}"

\* a match of /\{([^}]+)\}/g, and its first group
IsReference(node) ==
    node.kind = "text" /\ \E name \in ReferenceNames : node.id = Reference(name)
referenceName(node) == CHOOSE name \in ReferenceNames : node.id = Reference(name)

\* a JavaScript string as preview text
asText(str) == IF str = "" THEN <<>> ELSE <<Text(str)>>

\* strings.join(separator)
RECURSIVE join(_, _)
join(strings, separator) ==
    IF strings = <<>> THEN <<>>
    ELSE IF Len(strings) = 1 THEN asText(strings[1])
    ELSE asText(strings[1]) \o asText(separator) \o join(Tail(strings), separator)

\* options.filter((_, index) => index < checked.length ? checked[index] : false)
RECURSIVE selectedFrom(_, _, _)
selectedFrom(options, checked, i) ==
    IF i > Len(options) THEN <<>>
    ELSE (IF i <= Len(checked) /\ checked[i] THEN <<options[i]>> ELSE <<>>)
         \o selectedFrom(options, checked, i + 1)

\* sectionComponents.find(c => (c.attributes?.variableName || c.id) === variableName)
\* is the first of these, when there is one
keyedComponents(sectionComponents, variableName) ==
    SelectSeq(sectionComponents, LAMBDA c : keyOf(c) = variableName)

\* foundOptions: every section that holds a component of that key with an
\* options array assigns it, so the last such section decides
RECURSIVE foundOptions(_, _, _, _)
foundOptions(order, componentMap, variableName, booleanArray) ==
    IF order = <<>> THEN <<>>
    ELSE LET sectionComponents == componentMap[order[Len(order)]]
             earlier == SubSeq(order, 1, Len(order) - 1)
             found == keyedComponents(sectionComponents, variableName)
         IN  IF Len(found) > 0 /\ found[1].options.k = "seq"
             THEN selectedFrom(found[1].options.v, booleanArray, 1)
             ELSE foundOptions(earlier, componentMap, variableName, booleanArray)

\* fieldValues is a plain object ({}): fieldValues[name] is not undefined for
\* a name Object.prototype defines, and toString() of such a value gives
\* its text
InheritedNames == {"constructor"}

\* what the replace callback returns for {variableName}
referenceValue(variableName, values, order, componentMap) ==
    IF variableName \in DOMAIN values
    THEN LET value == values[variableName]
         IN  IF value.k = "flags"
             THEN IF Len(value.flags) > 0
                  THEN LET found == foundOptions(order, componentMap, variableName,
                                                 value.flags)
                       IN  IF Len(found) > 0 THEN join(found, ", ")
                           ELSE asText("[None selected]")
                  ELSE <<>>
             ELSE asText(value.s)
    ELSE IF variableName \in InheritedNames
    THEN asText("function Object() { [native code] }")
    ELSE asText("[" \o variableName \o "]")

\* text.replace(/\{([^}]+)\}/g, ...): one pass over text
RECURSIVE replaceVariableReferences(_, _, _, _)
replaceVariableReferences(text, values, order, componentMap) ==
    IF text = <<>> THEN <<>>
    ELSE (IF IsReference(Head(text))
          THEN referenceValue(referenceName(Head(text)), values, order, componentMap)
          ELSE <<Head(text)>>)
         \o replaceVariableReferences(Tail(text), values, order, componentMap)

\* cleanHtmlContent: the remove affordance (aria-hidden) is dropped and a
\* [data-component] element keeps only an id attribute, taken from data-id
cleanHtmlContent(html) ==
    [i \in 1..Len(html) |->
        IF html[i].kind = "span" /\ html[i].dc
        THEN Span(html[i].id, FALSE, FALSE, html[i].lab)
        ELSE [html[i] EXCEPT !.del = FALSE, !.lsn = NoListener]]

\* (value as string[]).filter(v => v && v.trim()): calling trim on true throws
replacementThrows(component, values) ==
    /\ component.type # MultiTextField
    /\ keyOf(component) \in DOMAIN values
    /\ values[keyOf(component)].k = "flags"
    /\ \E i \in 1..Len(values[keyOf(component)].flags) : values[keyOf(component)].flags[i]

\* replacementValue of a component of the section
replacementValue(component, values, order, componentMap) ==
    LET key == keyOf(component)
        known == key \in DOMAIN values
    IN  IF component.type = MultiTextField
        THEN LET options == optionsOf(component)
                 checked == IF known /\ values[key].k = "flags"
                            THEN values[key].flags
                            ELSE [i \in 1..Len(options) |-> FALSE]
             IN  join(selectedFrom(options, checked, 1), "<br>")
        ELSE IF known /\ values[key].k = "flags"
        THEN <<>>
        ELSE IF known /\ values[key].s # ""
        THEN replaceVariableReferences(asText(values[key].s), values, order, componentMap)
        ELSE <<>>

\* cleanedSectionContent.replace(componentRegex, replacementValue) for every
\* component of the section: each span whose id attribute is the id of a
\* component of the section gives way to that component's replacement
RECURSIVE replaceComponents(_, _, _, _, _)
replaceComponents(content, sectionComponents, values, order, componentMap) ==
    IF content = <<>> THEN <<>>
    ELSE LET node == Head(content)
             matches == {i \in 1..Len(sectionComponents) :
                            node.kind = "span" /\ sectionComponents[i].id = node.id}
         IN  (IF matches = {} THEN <<node>>
              ELSE replacementValue(sectionComponents[CHOOSE i \in matches : TRUE],
                                    values, order, componentMap))
             \o replaceComponents(Tail(content), sectionComponents, values, order,
                                  componentMap)

\* sectionComponentsMap[section.id] || []
componentsOfSection(componentMap, id) ==
    IF id \in DOMAIN componentMap THEN componentMap[id] ELSE <<>>

\* a preview that skips no section
includeAll(states, id) == TRUE

\* !sectionStates[section.id]
isIncluded(states, id) == id \in DOMAIN states /\ states[id]

\* the <div class="mb-6"> of one section
sectionPreview(section, values, order, componentMap) ==
    replaceVariableReferences(
        replaceComponents(cleanHtmlContent(section.content),
                          componentsOfSection(componentMap, section.id),
                          values, order, componentMap),
        values, order, componentMap)

\* a variant of fullPreviewContent whose result depends on the preview the
\* previous run left behind
fullPreviewContentAppended(secs, states, values, order, componentMap) ==
    IF previewContent = <<>> THEN <<Text("x")>> ELSE <<>>

\* fullPreviewContent: one block for every section that is not skipped
RECURSIVE fullPreviewContent(_, _, _, _, _)
fullPreviewContent(secs, states, values, order, componentMap) ==
    IF secs = <<>> THEN <<>>
    ELSE (IF isIncluded(states, Head(secs).id)
          THEN <<sectionPreview(Head(secs), values, order, componentMap)>>
          ELSE <<>>)
         \o fullPreviewContent(Tail(secs), states, values, order, componentMap)

\* generatePreview ends in an exception, before any state is set
previewThrows(secs, states, values, componentMap) ==
    \E i \in 1..Len(secs) :
        /\ isIncluded(states, secs[i].id)
        /\ \E j \in 1..Len(componentsOfSection(componentMap, secs[i].id)) :
              replacementThrows(componentsOfSection(componentMap, secs[i].id)[j], values)

(***************************************************************************)
(* Initial state: the component is mounted, no effect has run yet.         *)
(***************************************************************************)
Init ==
    /\ sections = <<>>
    /\ components = <<>>
    /\ isLocked = FALSE
    /\ errorMessage = MsgNone
    /\ initialized = FALSE
    /\ fillModalOpen = FALSE
    /\ sectionIdCounter = 0
    /\ componentIdCounter = 0
    /\ store = EmptyStore
    /\ dom = [id \in {} |-> <<>>]
    /\ timers = <<>>
    /\ sectionStates = [id \in {} |-> TRUE]
    /\ sectionComponentsMap = [id \in {} |-> <<>>]
    /\ fieldValues = NoFieldValues
    /\ formStep = "filling"
    /\ previewContent = <<>>
    /\ clipboard = <<>>
    /\ steps = 0

\* setSections(secs) by a handler of the editor, with what the render and
\* the injection effect then do; comps is the components state of that render
SetSections(secs, d, comps) ==
    LET after == sectionsEffect(secs, d, store, isLocked, comps, timers)
    IN  /\ sections' = secs
        /\ dom' = after.dom
        /\ timers' = after.timers

\* the editor can be operated: the fill modal's overlay does not cover it
EditorUsable == initialized /\ ~fillModalOpen

\* One more action of the author.  No handler reads errorMessage, so what
\* an action does to the document is the same whether or not the message of
\* the previous action is still shown: the author's next action is taken
\* once that message has been cleared (lines 164-172).
AuthorActs ==
    /\ errorMessage = MsgNone
    /\ steps < MaxSteps
    /\ steps' = steps + 1

(***************************************************************************)
(* Sections: lines 47-152.                                                 *)
(***************************************************************************)
\* the effect that creates the default section (lines 59-72)
initDefaultSection ==
    /\ UNCHANGED steps
    /\ Len(sections) = 0 /\ ~initialized
    /\ SetSections(<<Section(generateSectionId(sectionIdCounter), "Section 1", <<>>, TRUE)>>,
                   dom, components)
    /\ sectionIdCounter' = sectionIdCounter + 1
    /\ initialized' = TRUE
    /\ UNCHANGED <<components, isLocked, errorMessage, fillModalOpen,
                   componentIdCounter, store>>
    /\ UNCHANGED modalState

addSection ==
    /\ AuthorActs
    /\ EditorUsable /\ ~isLocked
    /\ SetSections(Append(sections,
                          Section(generateSectionId(sectionIdCounter),
                                  SectionTitleNames[Len(sections) + 1], <<>>, TRUE)),
                   dom, components)
    /\ sectionIdCounter' = sectionIdCounter + 1
    /\ UNCHANGED <<components, isLocked, errorMessage, initialized, fillModalOpen,
                   componentIdCounter, store>>
    /\ UNCHANGED modalState

\* sections.map(section => section.id === sectionId ? {...section, title} : section)
withTitle(secs, sectionId, title) ==
    [i \in 1..Len(secs) |->
        IF secs[i].id = sectionId THEN [secs[i] EXCEPT !.title = title] ELSE secs[i]]

\* sections.map(section => section.id === sectionId ? {...section, content} : section)
withContent(secs, sectionId, content) ==
    [i \in 1..Len(secs) |->
        IF secs[i].id = sectionId THEN [secs[i] EXCEPT !.content = content] ELSE secs[i]]

SectionTitles == {"Notes"}

updateSectionTitle(sectionId, title) ==
    /\ AuthorActs
    /\ EditorUsable /\ ~isLocked
    /\ sectionId \in sectionIds(sections)
    /\ SetSections(withTitle(sections, sectionId, title), dom, components)
    /\ UNCHANGED <<components, isLocked, errorMessage, initialized, fillModalOpen,
                   sectionIdCounter, componentIdCounter, store>>
    /\ UNCHANGED modalState

\* sections.filter(section => section.id !== sectionId)
withoutSection(secs, sectionId) == SelectSeq(secs, LAMBDA s : s.id # sectionId)

removeSection(sectionId) ==
    /\ AuthorActs
    /\ EditorUsable /\ ~isLocked
    /\ sectionId \in sectionIds(sections)
    /\ IF Len(sections) <= 1
       THEN /\ errorMessage' = MsgLastSection
            /\ UNCHANGED <<sections, dom, timers>>
       ELSE /\ SetSections(withoutSection(sections, sectionId), dom, components)
            /\ UNCHANGED errorMessage
    /\ UNCHANGED <<components, isLocked, initialized, fillModalOpen,
                   sectionIdCounter, componentIdCounter, store>>
    /\ UNCHANGED modalState

(***************************************************************************)
(* The author edits a section: onInput (lines 1044-1048).                  *)
(***************************************************************************)
onInput(sectionId, nodes) ==
    /\ AuthorActs
    /\ SetSections(withContent(sections, sectionId, innerHTML(nodes)),
                   [dom EXCEPT ![sectionId] = nodes], components)
    /\ UNCHANGED <<components, isLocked, errorMessage, initialized, fillModalOpen,
                   sectionIdCounter, componentIdCounter, store>>
    /\ UNCHANGED modalState

RemoveAt(s, i) == SubSeq(s, 1, i - 1) \o SubSeq(s, i + 1, Len(s))
InsertAt(s, i, items) == SubSeq(s, 1, i) \o items \o SubSeq(s, i + 1, Len(s))

\* the author types a character at the end of a section
typeText(sectionId) ==
    /\ EditorUsable /\ ~isLocked
    /\ sectionId \in DOMAIN dom
    /\ onInput(sectionId, Append(dom[sectionId], Text("x")))

\* the author deletes a node (a character or a whole marker) with the keyboard
deleteNode(sectionId, i) ==
    /\ EditorUsable /\ ~isLocked
    /\ sectionId \in DOMAIN dom
    /\ i \in 1..Len(dom[sectionId])
    /\ onInput(sectionId, RemoveAt(dom[sectionId], i))

\* the author pastes a copy of a marker of the document at the end of a
\* section: the copy has the markup of the original and none of its listeners
MarkerNodes ==
    UNION {{innerHTML(dom[id])[i] : i \in {j \in 1..Len(dom[id]) : IsMarker(dom[id][j])}} :
           id \in DOMAIN dom}

pasteMarker(sectionId, node) ==
    /\ EditorUsable /\ ~isLocked
    /\ sectionId \in DOMAIN dom
    /\ onInput(sectionId, Append(dom[sectionId], node))

(***************************************************************************)
(* Lock, components: lines 347-479, 871-890.                               *)
(***************************************************************************)
toggleLock ==
    /\ AuthorActs
    /\ EditorUsable
    /\ isLocked' = ~isLocked
    /\ UNCHANGED <<sections, components, errorMessage, initialized, fillModalOpen,
                   sectionIdCounter, componentIdCounter, store, dom, timers>>
    /\ UNCHANGED modalState

ComponentTypes == {TextField, Dropdown, MultiTextField}

newComponent(id, type) ==
    CASE type = TextField -> Component(id, type, "Text Field", "", OptAbsent)
      [] type = Dropdown -> Component(id, type, "Dropdown: Status", "", DropdownDefaults)
      [] type = MultiTextField -> Component(id, type, "Multi Text Field", "", MultiDefaults)

\* the marker element insertComponent builds, with its delete listener
newMarker(c, locked, comps) ==
    [Span(c.id, TRUE, TRUE, c.label) EXCEPT !.lsn = Listener(locked, comps)]

\* no selection, or a selection outside every section
insertComponentNoSelection ==
    /\ AuthorActs
    /\ EditorUsable /\ ~isLocked
    /\ errorMessage' = MsgClickInside
    /\ UNCHANGED <<sections, components, isLocked, initialized, fillModalOpen,
                   sectionIdCounter, componentIdCounter, store, dom, timers>>
    /\ UNCHANGED modalState

\* the cursor is in section sectionId, after its first pos nodes
insertComponent(type, sectionId, pos) ==
    /\ AuthorActs
    /\ EditorUsable /\ ~isLocked
    /\ sectionId \in DOMAIN dom
    /\ pos \in 0..Len(dom[sectionId])
    /\ LET c == newComponent(generateComponentId(componentIdCounter), type)
           nodes == InsertAt(dom[sectionId], pos, <<newMarker(c, isLocked, components), Nbsp>>)
           comps == Append(components, c)
       IN  /\ store' = addComponent(store, c)
           /\ components' = comps
           /\ SetSections(withContent(sections, sectionId, innerHTML(nodes)),
                          [dom EXCEPT ![sectionId] = nodes], comps)
    /\ componentIdCounter' = componentIdCounter + 1
    /\ UNCHANGED <<isLocked, errorMessage, initialized, fillModalOpen,
                   sectionIdCounter>>
    /\ UNCHANGED modalState

\* components.filter(comp => comp.id !== id)
withoutComponent(comps, id) == SelectSeq(comps, LAMBDA c : c.id # id)

\* removeComponent(id, element) as the listener's render defined it
removeComponent(id, sectionId, i, lsn) ==
    /\ ~lsn.locked
    /\ store' = removeComponentFromStore(store, id)
    /\ dom' = [dom EXCEPT ![sectionId] = RemoveAt(dom[sectionId], i)]
    /\ components' = withoutComponent(lsn.comps, id)

\* a click on the remove affordance of the i-th node of a section
clickDelete(sectionId, i) ==
    /\ AuthorActs
    /\ EditorUsable
    /\ sectionId \in DOMAIN dom
    /\ i \in 1..Len(dom[sectionId])
    /\ LET node == dom[sectionId][i]
       IN  /\ node.kind = "span" /\ node.del /\ node.lsn.on
           /\ ~node.lsn.locked
           /\ removeComponent(node.id, sectionId, i, node.lsn)
    /\ UNCHANGED <<sections, isLocked, errorMessage, initialized, fillModalOpen,
                   sectionIdCounter, componentIdCounter, timers>>
    /\ UNCHANGED modalState

(***************************************************************************)
(* Editing a component: ComponentModal.handleSave (lines 70-93) and        *)
(* handleSaveComponent (lines 808-868).                                    *)
(***************************************************************************)
\* the metadata the dialog submits for the component it was opened on
handleSave(component, label, variableName, optionsList) ==
    Component(component.id, component.type, OrEmpty(label), OrEmpty(variableName),
              IF component.type \in {Dropdown, MultiTextField}
              THEN OptSeq(optionsList)
              ELSE component.options)

\* the variant of sanitizedMetadata that keeps the submitted options
submittedMetadata(updatedMetadata) ==
    Component(updatedMetadata.id, updatedMetadata.type,
              OrEmpty(updatedMetadata.label), OrEmpty(updatedMetadata.variableName),
              updatedMetadata.options)

\* label || '', variableName || '', and the default options of the type
\* when the options are missing, not an array or an empty array
sanitizedMetadata(updatedMetadata) ==
    Component(updatedMetadata.id, updatedMetadata.type,
              OrEmpty(updatedMetadata.label), OrEmpty(updatedMetadata.variableName),
              IF /\ updatedMetadata.type \in {Dropdown, MultiTextField}
                 /\ \/ updatedMetadata.options.k # "seq"
                    \/ updatedMetadata.options.v = <<>>
              THEN DefaultOptions(updatedMetadata.type)
              ELSE updatedMetadata.options)

\* ComponentStore.updateComponent: an id the store does not hold is ignored
updateComponent(st, id, metadata) ==
    IF id \in DOMAIN st THEN [st EXCEPT ![id] = metadata] ELSE st

\* document.getElementById(id): the first span with that id, in the order
\* of the rendered sections; its label takes the new text
withLabel(secs, d, id, label) ==
    LET holds(i) == /\ hasElement(d, secs[i].id)
                    /\ \E j \in 1..Len(d[secs[i].id]) :
                          d[secs[i].id][j].kind = "span" /\ d[secs[i].id][j].id = id
        holders == {i \in 1..Len(secs) : holds(i)}
    IN  IF holders = {} THEN d
        ELSE LET i == CHOOSE k \in holders : \A l \in holders : k <= l
                 nodes == d[secs[i].id]
                 j == CHOOSE k \in 1..Len(nodes) :
                          /\ nodes[k].kind = "span" /\ nodes[k].id = id
                          /\ \A l \in 1..(k - 1) :
                                ~(nodes[l].kind = "span" /\ nodes[l].id = id)
             IN  [d EXCEPT ![secs[i].id] = [nodes EXCEPT ![j].lab = label]]

\* components.map(comp => comp.id === id ? sanitizedMetadata : comp)
withComponent(comps, metadata) ==
    [i \in 1..Len(comps) |-> IF comps[i].id = metadata.id THEN metadata ELSE comps[i]]

\* The labels, variable names and options a caller can submit: the strings
\* and lists the dialog builds, and the missing or malformed values the
\* handler tests for.
SubmittedLabels == {Undefined, "Renamed"}
SubmittedNames == {Undefined, "alias"}
SubmittedOptions == {OptAbsent, OptNonSeq, OptSeq(<<>>), OptSeq(<<"Yes">>)}

\* the components the dialog can be opened on: the markers of the document
\* that the store knows (lines 236-244)
editableComponents ==
    {store[id] : id \in {m.id : m \in MarkerNodes} \cap DOMAIN store}

handleSaveComponent(updatedMetadata) ==
    /\ AuthorActs
    /\ EditorUsable
    /\ IF isLocked
       THEN UNCHANGED <<store, dom, components>>
       ELSE LET metadata == sanitizedMetadata(updatedMetadata)
            IN  /\ store' = updateComponent(store, metadata.id, metadata)
                /\ dom' = withLabel(sections, dom, metadata.id, metadata.label)
                /\ components' = withComponent(components, metadata)
    /\ UNCHANGED <<sections, isLocked, errorMessage, initialized, fillModalOpen,
                   sectionIdCounter, componentIdCounter, timers>>
    /\ UNCHANGED modalState

(***************************************************************************)
(* Fill modal: openFillTemplate (lines 504-544) and the modal's effect     *)
(* (FillTemplateModal, lines 402-416 of its second version).               *)
(***************************************************************************)
\* Every updateSectionContent call of the loop maps the sections of the
\* handler's render, so the state keeps the last call's result.
sectionsAfterFillOpen(secs, d) ==
    IF Len(secs) = 0 THEN secs
    ELSE LET last == secs[Len(secs)]
         IN  withContent(secs, last.id, innerHTML(d[last.id]))

\* what the modal receives when it is opened now: its sections and
\* components props, and the map its effect computes from them
fillFormSections == sectionsAfterFillOpen(sections, dom)
fillFormComponents == orderedVisibleComponents(sections, dom, store)
fillFormMap == createSectionComponentsMap(fillFormSections, fillFormComponents)

openFillTemplate ==
    /\ AuthorActs
    /\ EditorUsable
    /\ Len(components) > 0
    /\ LET secs == fillFormSections
           comps == fillFormComponents
       IN  /\ components' = comps
           /\ IF Len(sections) = 0
              THEN UNCHANGED <<sections, dom, timers>>
              ELSE SetSections(secs, dom, comps)
           /\ sectionStates' = initialSectionStates(secs)
           /\ sectionComponentsMap' = fillFormMap
           /\ fieldValues' = initializeFieldValues(secs, fillFormMap)
    /\ fillModalOpen' = TRUE
    /\ UNCHANGED <<formStep, previewContent, clipboard>>
    /\ UNCHANGED <<isLocked, errorMessage, initialized, sectionIdCounter,
                   componentIdCounter, store>>

closeFillTemplate ==
    /\ AuthorActs
    /\ fillModalOpen
    /\ fillModalOpen' = FALSE
    /\ UNCHANGED <<sections, components, isLocked, errorMessage, initialized,
                   sectionIdCounter, componentIdCounter, store, dom, timers>>
    /\ UNCHANGED modalState

(***************************************************************************)
(* Export and import: lines 547-712.                                       *)
(***************************************************************************)
\* the text exportTemplate downloads, as importTemplate would parse it
exportedFile == stringifyTemplateData(templateData(sections, dom, store))

exportTemplate ==
    /\ AuthorActs
    /\ EditorUsable
    /\ errorMessage' = MsgExported
    /\ UNCHANGED <<sections, components, isLocked, initialized, fillModalOpen,
                   sectionIdCounter, componentIdCounter, store, dom, timers>>
    /\ UNCHANGED modalState

\* the branch that takes the file's sections (line 649)
hasSections(file) == file.sections.k = "seq" /\ Len(file.sections.v) > 0

\* the import ends in the catch block
importFails(file) ==
    \/ parseThrows(file)
    \/ invalidStructure(file)
    \/ componentsThrow(file.components.v)
    \/ (hasSections(file) /\ sectionsThrow(file.sections.v))

\* the store when the handler ends
importedStore(file, st) ==
    IF parseThrows(file) \/ invalidStructure(file) THEN st
    ELSE IF componentsThrow(file.components.v) THEN clearComponents(st)
    ELSE addAll(clearComponents(st), sanitizeComponents(file.components.v))

\* the ids generateSectionId hands out during the import
importedIds(file) ==
    IF parseThrows(file) \/ invalidStructure(file) \/ componentsThrow(file.components.v)
    THEN 0
    ELSE IF hasSections(file)
    THEN IdsBefore(file.sections.v, FirstNull(file.sections.v))
    ELSE 1

\* the argument of setSections, for an import that does not fail
importedSections(file, counter) ==
    IF hasSections(file)
    THEN sanitizeSections(file.sections.v, counter)
    ELSE <<Section(generateSectionId(counter), "Imported Content", <<>>, TRUE)>>

importedComponents(file) == sanitizeComponents(file.components.v)

\* the timeouts once the handler has scheduled its direct injection
importedTimers(file, counter, locked, comps, tms) ==
    IF hasSections(file)
    THEN Append(tms, ImportTimer(importedSections(file, counter), Listener(locked, comps)))
    ELSE tms

\* the document after the import of file and the render that follows it
documentAfterImport(file) ==
    IF importFails(file)
    THEN [sections |-> sections, components |-> components, dom |-> dom,
          timers |-> timers, store |-> importedStore(file, store)]
    ELSE LET secs == importedSections(file, sectionIdCounter)
             comps == importedComponents(file)
             st == importedStore(file, store)
             after == sectionsEffect(secs, dom, st, isLocked, comps,
                          importedTimers(file, sectionIdCounter, isLocked, components, timers))
         IN  [sections |-> secs, components |-> comps, dom |-> after.dom,
              timers |-> after.timers, store |-> st]

importTemplate(file) ==
    /\ AuthorActs
    /\ EditorUsable
    /\ LET after == documentAfterImport(file)
       IN  /\ sections' = after.sections
           /\ components' = after.components
           /\ dom' = after.dom
           /\ timers' = after.timers
           /\ store' = after.store
    /\ sectionIdCounter' = sectionIdCounter + importedIds(file)
    /\ errorMessage' = IF importFails(file) THEN MsgInvalidFormat ELSE MsgImported
    /\ UNCHANGED <<isLocked, initialized, fillModalOpen, componentIdCounter>>
    /\ UNCHANGED modalState

\* reader.onerror
importReadError ==
    /\ AuthorActs
    /\ EditorUsable
    /\ errorMessage' = MsgReadError
    /\ UNCHANGED <<sections, components, isLocked, initialized, fillModalOpen,
                   sectionIdCounter, componentIdCounter, store, dom, timers>>
    /\ UNCHANGED modalState

(***************************************************************************)
(* Timeouts.                                                               *)
(***************************************************************************)
\* the oldest 200 ms timeout expires: the effect's delayed attempt (lines
\* 119-124) or the import's direct injection (lines 668-679)
timerExpires ==
    /\ UNCHANGED steps
    /\ timers # <<>>
    /\ LET t == Head(timers)
       IN  dom' = IF t.kind = "effect"
                  THEN injectSectionContent(t.secs, 1, dom, store, t.lsn).dom
                  ELSE directInjection(t.secs, 1, dom, store, t.lsn)
    /\ timers' = Tail(timers)
    /\ UNCHANGED <<sections, components, isLocked, errorMessage, initialized,
                   fillModalOpen, sectionIdCounter, componentIdCounter, store>>
    /\ UNCHANGED modalState

\* the message is cleared after 3 seconds (lines 164-172)
clearErrorMessage ==
    /\ UNCHANGED steps
    /\ errorMessage # MsgNone
    /\ errorMessage' = MsgNone
    /\ UNCHANGED <<sections, components, isLocked, initialized, fillModalOpen,
                   sectionIdCounter, componentIdCounter, store, dom, timers>>
    /\ UNCHANGED modalState

(***************************************************************************)
(* The files the author may import.                                        *)
(***************************************************************************)
M1 == Span("c1", TRUE, TRUE, "Name")
M2 == Span("c2", TRUE, TRUE, "Status")
\* a span that kept its id and lost its tagging and its remove affordance
U1 == Span("c1", FALSE, FALSE, "Name")

EText == ComponentEntry("c1", TextField, "Name", "name", OptAbsent)
EDropEmpty == ComponentEntry("c2", Dropdown, "Status", Undefined, OptSeq(<<>>))
EDropAbsent == ComponentEntry("c2", Dropdown, Undefined, Undefined, OptAbsent)
EMultiNonSeq == ComponentEntry("c1", MultiTextField, "Name", "", OptNonSeq)
EMultiEmpty == ComponentEntry("c1", MultiTextField, "Name", "picks", OptSeq(<<>>))

SIntro == SectionEntry("a", "Intro", Some(<<M1, Text("x")>>), Some(TRUE))
SBody == SectionEntry("b", "", Some(<<M2, M1>>), Some(FALSE))
SIntroAgain == SectionEntry("a", "Outro", Some(<<M2>>), Some(TRUE))
SBare == SectionEntry(Undefined, Undefined, None, None)
STwice == SectionEntry("b", "Twice", Some(<<M1, M1>>), Some(TRUE))
SUntagged == SectionEntry("a", "Plain", Some(<<U1>>), Some(TRUE))

Object(secs, comps) == File("object", "seq", secs, "seq", comps)

ImportFiles ==
    { Object(<<SIntro, SBody>>, <<EText, EDropEmpty>>),
      Object(<<SIntro, SIntroAgain>>, <<EText>>),
      Object(<<SBare>>, <<EMultiNonSeq, EDropAbsent>>),
      Object(<<STwice>>, <<EMultiEmpty>>),
      Object(<<SUntagged>>, <<EText>>),
      Object(<<>>, <<EText>>),
      Object(<<SIntro>>, <<EText, NullComponentEntry>>),
      Object(<<SBare, NullSectionEntry>>, <<EText>>),
      File("object", "truthy", <<>>, "seq", <<>>),
      File("object", "falsy", <<>>, "seq", <<EText>>),
      File("object", "absent", <<>>, "seq", <<EText>>),
      File("object", "seq", <<SIntro>>, "absent", <<>>),
      File("object", "seq", <<SIntro>>, "nonseq", <<>>),
      File("null", "absent", <<>>, "absent", <<>>),
      File("unparsable", "absent", <<>>, "absent", <<>>) }

(***************************************************************************)
(* Specification.                                                          *)
(***************************************************************************)
Next ==
    \/ initDefaultSection
    \/ addSection
    \/ \E id \in sectionIds(sections), title \in SectionTitles :
          updateSectionTitle(id, title)
    \/ \E id \in sectionIds(sections) : removeSection(id)
    \/ \E id \in DOMAIN dom : typeText(id)
    \/ \E id \in DOMAIN dom : \E i \in 1..Len(dom[id]) : deleteNode(id, i)
    \/ \E id \in DOMAIN dom : \E node \in MarkerNodes : pasteMarker(id, node)
    \/ toggleLock
    \/ insertComponentNoSelection
    \/ \E type \in ComponentTypes : \E id \in DOMAIN dom :
          \E pos \in 0..Len(dom[id]) : insertComponent(type, id, pos)
    \/ \E id \in DOMAIN dom : \E i \in 1..Len(dom[id]) : clickDelete(id, i)
    \/ openFillTemplate
    \/ closeFillTemplate
    \/ exportTemplate
    \/ \E file \in ImportFiles : importTemplate(file)
    \/ importTemplate(exportedFile)
    \/ importReadError
    \/ timerExpires
    \/ clearErrorMessage

Spec == Init /\ [][Next]_vars

(***************************************************************************)
(* Properties.                                                             *)
(***************************************************************************)
\* the files an import may read in the current state
Importable == ImportFiles \cup {exportedFile}

\* C1: once the default section exists the document always has at least one
\* section: no handler empties the section list, and an import that does not
\* fail leaves at least one section.
AtLeastOneSection ==
    /\ initialized => Len(sections) >= 1
    /\ \A file \in Importable :
          ~importFails(file) => Len(documentAfterImport(file).sections) >= 1

\* a payload whose sections or whose components is missing or is not a
\* sequence
MalformedPayload(file) ==
    \/ file.root # "object"
    \/ file.sections.k # "seq"
    \/ file.components.k # "seq"

\* C2: every import of a payload whose sections is missing or not a sequence,
\* or whose components is missing or not a sequence, ends with the
\* invalid-format error.
MalformedPayloadRejected ==
    [][\A file \in Importable :
          (importTemplate(file) /\ MalformedPayload(file))
              => errorMessage' = MsgInvalidFormat]_vars

\* C3: an import that ends with the invalid-format error leaves the
\* component store, the sections and the components list as they were
\* before it started.
ImportAllOrNothing ==
    [][\A file \in Importable :
          (importTemplate(file) /\ errorMessage' = MsgInvalidFormat)
              => /\ store' = store
                 /\ sections' = sections
                 /\ components' = components]_vars

\* a choice component whose options the file leaves out, gives as a value
\* that is no sequence, or gives as an empty sequence
LacksOptions(entry) ==
    /\ ~entry.isNull
    /\ entry.type \in {Dropdown, MultiTextField}
    /\ (entry.options.k # "seq" \/ entry.options.v = <<>>)

\* C4: after a successful import every dropdown or multi-text-field
\* component whose options was absent, no sequence or an empty sequence is
\* stored with the three default options of its type.
DefaultOptionsBackfilled ==
    [][\A file \in Importable :
          (importTemplate(file) /\ errorMessage' = MsgImported)
              => \A i \in 1..Len(file.components.v) :
                    LET entry == file.components.v[i]
                    IN  LacksOptions(entry)
                            => /\ entry.id \in DOMAIN store'
                               /\ store'[entry.id].options = DefaultOptions(entry.type)]_vars

\* the editing surface once the pending timeouts have expired
RECURSIVE settledDom(_, _, _)
settledDom(tms, d, st) ==
    IF tms = <<>> THEN d
    ELSE LET t == Head(tms)
         IN  settledDom(Tail(tms),
                        IF t.kind = "effect"
                        THEN injectSectionContent(t.secs, 1, d, st, t.lsn).dom
                        ELSE directInjection(t.secs, 1, d, st, t.lsn),
                        st)

\* the live content of every section, in section order
liveContents(secs, d) == [i \in 1..Len(secs) |-> snapshotContent(secs[i], d)]

\* C5: importing the file exportTemplate produces for the current document
\* (no injection of an earlier change still pending) yields a document with
\* the same sections (content, title and enabled flag, in the same order)
\* and the same canonical visible-component list.
ExportImportRoundTrip ==
    (EditorUsable /\ timers = <<>>) =>
        LET after == documentAfterImport(exportedFile)
            d == settledDom(after.timers, after.dom, after.store)
        IN  /\ ~importFails(exportedFile)
            /\ Len(after.sections) = Len(sections)
            /\ liveContents(after.sections, d) = liveContents(sections, dom)
            /\ \A i \in 1..Len(sections) :
                  /\ after.sections[i].content = snapshotContent(sections[i], dom)
                  /\ after.sections[i].title = sections[i].title
                  /\ after.sections[i].enabled = sections[i].enabled
            /\ orderedVisibleComponents(after.sections, d, after.store)
                  = orderedVisibleComponents(sections, dom, store)

\* C10: the file exportTemplate writes holds, for every section, the content
\* the editing surface shows for it when the export is called, also when
\* that content is empty.
ExportWritesLiveContent ==
    EditorUsable =>
        \A i \in 1..Len(sections) :
            hasElement(dom, sections[i].id)
                => exportedFile.sections.v[i].content
                       = Some(innerHTML(dom[sections[i].id]))

\* the ids of a list of components
idsOf(comps) == {comps[i].id : i \in 1..Len(comps)}

\* the ids that have a marker in the live content of some section
markedIds == SeqToSet(getOrderedVisibleComponentIds(sections, dom))

\* the stored components no marker refers to
orphans == DOMAIN store \ markedIds

\* the components a fill form shows, over all its sections
shownIn(map) == UNION {idsOf(map[id]) : id \in DOMAIN map}

\* the stored components without a marker in the content of the sections
\* the modal holds
orphansOfRecords ==
    DOMAIN store \ UNION {SeqToSet(scanIds(sections[i].content)) : i \in 1..Len(sections)}

\* C6: a stored component without a marker in any section's content is in
\* none of: the exported components, the snapshot of getEditorData, the fill
\* form opened on the document; and the fill form that is open shows no
\* component without a marker in the sections it was given.
OrphanTolerance ==
    LET exported == idsOf(exportedFile.components.v)
        snapshot == idsOf(getEditorData(sections, dom, store).components)
        inForm == shownIn(fillFormMap)
    IN  /\ fillModalOpen => shownIn(sectionComponentsMap) \cap orphansOfRecords = {}
        /\ orphans \cap exported = {}
        /\ orphans \cap snapshot = {}
        /\ orphans \cap inForm = {}

\* an orphan exists while the fill form is open on a document that shows a
\* component
OrphanWhileFilling ==
    /\ fillModalOpen
    /\ orphans # {}
    /\ shownIn(sectionComponentsMap) # {}

\* the ids of the markers no stored component answers to
danglingIds == markedIds \ DOMAIN store

\* C7: with a marker in the content whose id has no store entry, the lists
\* computed for export, snapshot, fill-open and the modal's per-section map
\* hold stored components only (no undefined entry that a later read would
\* trip on), and the canonical list holds every marked id but the dangling
\* ones.
DanglingMarkerTolerance ==
    LET stored == markedIds \ danglingIds
    IN  /\ idsOf(exportedFile.components.v) = stored
        /\ idsOf(getEditorData(sections, dom, store).components) = stored
        /\ idsOf(fillFormComponents) = stored
        /\ shownIn(fillFormMap) \subseteq DOMAIN store
        /\ fillModalOpen =>
              /\ idsOf(components) \subseteq DOMAIN store
              /\ shownIn(sectionComponentsMap) \subseteq DOMAIN store

\* the fill form is open on a document with a dangling marker and shows a
\* component
DanglingWhileFilling ==
    /\ fillModalOpen
    /\ danglingIds # {}
    /\ shownIn(sectionComponentsMap) # {}

\* no id occurs twice in a list of components
NoDuplicateIds(comps) ==
    \A i, j \in 1..Len(comps) : comps[i].id = comps[j].id => i = j

\* the first position of each id of a list of ids
RECURSIVE dedupKeepFirst(_)
dedupKeepFirst(ids) ==
    IF ids = <<>> THEN <<>>
    ELSE LET front == dedupKeepFirst(SubSeq(ids, 1, Len(ids) - 1))
             last == ids[Len(ids)]
         IN  IF last \in SeqToSet(front) THEN front ELSE Append(front, last)

listIds(comps) == [i \in 1..Len(comps) |-> comps[i].id]

\* C8: the visible-component list used for export, snapshot and the fill
\* form holds a component with several markers exactly once, at the position
\* of its first marker.
VisibleListDeduplicated ==
    LET expected ==
            SelectSeq(dedupKeepFirst(getOrderedVisibleComponentIds(sections, dom)),
                      LAMBDA id : id \in DOMAIN store)
    IN  /\ listIds(exportedFile.components.v) = expected
        /\ listIds(getEditorData(sections, dom, store).components) = expected
        /\ listIds(fillFormComponents) = expected
        /\ \A id \in DOMAIN fillFormMap : NoDuplicateIds(fillFormMap[id])
        /\ fillModalOpen =>
              \A id \in DOMAIN sectionComponentsMap :
                  NoDuplicateIds(sectionComponentsMap[id])

\* the ids of the markers of a section's content that the form's components
\* answer to, left to right, each at its first marker
markerOrder(section, comps) ==
    dedupKeepFirst(SelectSeq(scanIds(section.content), LAMBDA id : id \in idsOf(comps)))

\* C9: the canonical list is the concatenation, in section order, of the
\* sections' components in marker order, and the components the fill form
\* shows under a section are in the order of their markers in that
\* section's content, whatever the order of the components array.
OrderFollowsMarkers ==
    /\ listIds(fillFormComponents)
          = SelectSeq(getOrderedVisibleComponentIds(sections, dom),
                      LAMBDA id : id \in DOMAIN store)
    /\ \A i \in 1..Len(fillFormSections) :
          LET section == fillFormSections[i]
          IN  i = LastWithId(fillFormSections, section.id)
                 => dedupKeepFirst(listIds(fillFormMap[section.id]))
                       = markerOrder(section, fillFormComponents)

\* the ids with a marker in the live content or in the record of a section
markedAnywhere(secs, d) ==
    UNION ({SeqToSet(scanIds(secs[i].content)) : i \in 1..Len(secs)}
           \cup {SeqToSet(scanIds(d[id])) : id \in DOMAIN d})

\* C11: once removeComponent(id) has run, no section's content, live or held
\* in the section record, contains a marker for id.
RemovedComponentLeavesNoMarker ==
    [][\A sectionId \in DOMAIN dom : \A i \in 1..Len(dom[sectionId]) :
          clickDelete(sectionId, i)
              => dom[sectionId][i].id \notin markedAnywhere(sections', dom')]_vars

\* C20: no two sections of the document have the same id.
SectionIdsUnique ==
    \A i, j \in 1..Len(sections) : sections[i].id = sections[j].id => i = j

\* the ids generateSectionId has handed out so far
generatedSectionIds == {SectionIdNames[k] : k \in 1..sectionIdCounter}

\* section sec is what the claim prescribes for the file's entry
SanitizedAs(sec, entry) ==
    /\ entry.id \notin {Undefined, ""} => sec.id = entry.id
    /\ entry.id \in {Undefined, ""} =>
          sec.id \in SeqToSet(SectionIdNames) \ generatedSectionIds
    /\ sec.title = (IF entry.title = Undefined THEN "" ELSE entry.title)
    /\ sec.content = (IF entry.content = None THEN <<>> ELSE entry.content[1])
    /\ sec.enabled = (IF entry.enabled = None THEN TRUE ELSE entry.enabled[1])

editorUnchanged ==
    UNCHANGED <<sections, components, isLocked, errorMessage, initialized,
                fillModalOpen, sectionIdCounter, componentIdCounter, store, dom,
                timers, steps>>

formShown == fillModalOpen /\ formStep = "filling"

\* the "Include this section" checkbox of a section
toggleSection(sectionId) ==
    /\ formShown
    /\ sectionId \in sectionIds(sections)
    /\ sectionStates' =
          [id \in DOMAIN sectionStates \cup {sectionId} |->
              IF id = sectionId THEN ~isIncluded(sectionStates, sectionId)
              ELSE sectionStates[id]]
    /\ editorUnchanged
    /\ UNCHANGED clipboard
    /\ UNCHANGED <<sectionComponentsMap, fieldValues, formStep, previewContent>>

\* what the author may type into a text input
TypedStrings == {"", "Ann", Reference("status")}

\* the components the form shows an input for
shownComponents ==
    UNION {SeqToSet(componentsOfSection(sectionComponentsMap, id)) :
              id \in sectionIds(sections)}

\* setFieldValues({...fieldValues, [key]: value})
withValue(values, key, value) ==
    [k \in DOMAIN values \cup {key} |-> IF k = key THEN value ELSE values[k]]

\* onChange of the text input or of the select of component
handleFieldChange(component, str) ==
    /\ formShown
    /\ component \in shownComponents
    /\ \/ component.type = TextField /\ str \in TypedStrings
       \/ component.type = Dropdown /\ str \in SeqToSet(optionsOf(component))
    /\ fieldValues' = withValue(fieldValues, keyOf(component), StringValue(str))
    /\ editorUnchanged
    /\ UNCHANGED clipboard
    /\ UNCHANGED <<sectionStates, sectionComponentsMap, formStep, previewContent>>

\* Array.isArray(fieldValues[key]) ? [...fieldValues[key]] : []
currentFlags(values, key) ==
    IF key \in DOMAIN values /\ values[key].k = "flags" THEN values[key].flags ELSE <<>>

\* the array is padded up to index, then currentValues[index] = checked
withFlag(flags, index, checked) ==
    [i \in 1..(IF Len(flags) < index THEN index ELSE Len(flags)) |->
        IF i = index THEN checked
        ELSE IF i <= Len(flags) THEN flags[i] ELSE FALSE]

\* onChange of the checkbox of option index of a multi-text-field: checked
\* is the opposite of what the checkbox shows
handleCheckboxChange(component, index) ==
    /\ formShown
    /\ component \in shownComponents
    /\ component.type = MultiTextField
    /\ index \in 1..Len(optionsOf(component))
    /\ LET key == keyOf(component)
           values == currentFlags(fieldValues, key)
           isChecked == index <= Len(values) /\ values[index]
       IN  fieldValues' = withValue(fieldValues, key,
                                    FlagsValue(withFlag(values, index, ~isChecked)))
    /\ editorUnchanged
    /\ UNCHANGED clipboard
    /\ UNCHANGED <<sectionStates, sectionComponentsMap, formStep, previewContent>>

\* the button is disabled while the map holds no component (line 913)
generatePreview ==
    /\ formShown
    /\ mapComponents(mapOrder(sections), sectionComponentsMap) # <<>>
    /\ IF previewThrows(sections, sectionStates, fieldValues, sectionComponentsMap)
       THEN UNCHANGED <<formStep, previewContent>>
       ELSE /\ previewContent' =
                  fullPreviewContent(sections, sectionStates, fieldValues,
                                     mapOrder(sections), sectionComponentsMap)
            /\ formStep' = "preview"
    /\ editorUnchanged
    /\ UNCHANGED clipboard
    /\ UNCHANGED <<sectionStates, sectionComponentsMap, fieldValues>>

backToForm ==
    /\ fillModalOpen /\ formStep = "preview"
    /\ formStep' = "filling"
    /\ editorUnchanged
    /\ UNCHANGED clipboard
    /\ UNCHANGED <<sectionStates, sectionComponentsMap, fieldValues, previewContent>>

(***************************************************************************)
(* copyToClipboard (lines 719-776).  A text is a sequence of characters    *)
(* and words; a word stands for a run of characters without white space.   *)
(***************************************************************************)
Newline == "\n"
NoBreakSpace == "<U+00A0>"
WhiteSpace == {Newline, " ", NoBreakSpace}

\* a <p> element that holds the text str: a line of the author, as
\* cleanHtmlContent leaves it (<div> elements with content become <p>)
Paragraph(str) == [Text(str) EXCEPT !.kind = "p"]

\* the text of a node once <br> elements are newlines and the text of
\* every block element with text stands trimmed, followed by a newline
nodeText(node) ==
    CASE node.kind = "span" -> IF node.lab = "" THEN <<>> ELSE <<node.lab>>
      [] node.kind = "p" -> IF node.id \in WhiteSpace \cup {""}
                            THEN (IF node.id = "" THEN <<>> ELSE <<node.id>>)
                            ELSE <<node.id, Newline>>
      [] node.kind = "text" /\ node.id = "<br>" -> <<Newline>>
      [] node.kind = "text" /\ node.id = "&nbsp;" -> <<NoBreakSpace>>
      [] OTHER -> IF node.id = "" THEN <<>> ELSE <<node.id>>

\* contentDiv.textContent
RECURSIVE textContent(_)
textContent(nodes) ==
    IF nodes = <<>> THEN <<>> ELSE nodeText(Head(nodes)) \o textContent(Tail(nodes))

\* the variant of collapseNewlines that leaves the text as it is
keepNewlines(text) == text

\* .replace(/\n{3,}/g, '\n\n')
RECURSIVE collapseNewlines(_)
collapseNewlines(text) ==
    IF Len(text) < 3 THEN text
    ELSE IF text[1] = Newline /\ text[2] = Newline /\ text[3] = Newline
    THEN collapseNewlines(Tail(text))
    ELSE <<Head(text)>> \o collapseNewlines(Tail(text))

\* .trim()
RECURSIVE trimStart(_)
trimStart(text) ==
    IF text # <<>> /\ Head(text) \in WhiteSpace THEN trimStart(Tail(text)) ELSE text

RECURSIVE trimEnd(_)
trimEnd(text) ==
    IF text # <<>> /\ text[Len(text)] \in WhiteSpace
    THEN trimEnd(SubSeq(text, 1, Len(text) - 1))
    ELSE text

trim(text) == trimEnd(trimStart(text))

\* the text of one section block of the preview
sectionText(sectionDiv) == trim(collapseNewlines(textContent(sectionDiv)))

\* textSections: the texts that are not empty, in the order of the blocks
textSections(html) ==
    SelectSeq([i \in 1..Len(html) |-> sectionText(html[i])], LAMBDA text : text # <<>>)

\* textSections.join('\n\n')
RECURSIVE joinTexts(_)
joinTexts(texts) ==
    IF texts = <<>> THEN <<>>
    ELSE IF Len(texts) = 1 THEN texts[1]
    ELSE texts[1] \o <<Newline, Newline>> \o joinTexts(Tail(texts))

copyToClipboard ==
    /\ fillModalOpen /\ formStep = "preview"
    /\ clipboard' = joinTexts(textSections(previewContent))
    /\ editorUnchanged
    /\ UNCHANGED <<sectionStates, sectionComponentsMap, fieldValues, formStep,
                   previewContent>>

(***************************************************************************)
(* Fill sessions: the editor holds an imported document, and the author    *)
(* opens the fill modal, fills the form, previews, closes and re-opens.    *)
(***************************************************************************)
\* The documents: (1) a letter with a text field "name" and references to
\* status, picks, a name nothing defines and a name Object.prototype defines,
\* followed by a disabled section with a drop-down "status", a
\* multi-text-field "picks" and a reference to name; (2) a section with a
\* multi-text-field whose options array is empty, a text field without
\* variable name and references to both; (3) a section with a text field and
\* a multi-text-field that have the same variable name.
FillFiles ==
    { Object(<<SectionEntry("a", "Letter",
                            Some(<<M1, Text(Reference("status")), Text(Reference("picks")),
                                   Text(Reference("nobody")),
                                   Text(Reference("constructor"))>>),
                            Some(TRUE)),
               SectionEntry("b", "Details",
                            Some(<<M2, Span("c3", TRUE, TRUE, "Picks"),
                                   Text(Reference("name"))>>),
                            Some(FALSE))>>,
             <<ComponentEntry("c1", TextField, "Name", "name", OptAbsent),
               ComponentEntry("c2", Dropdown, "Status", "status", OptSeq(<<"Open", "Done">>)),
               ComponentEntry("c3", MultiTextField, "Picks", "picks",
                              OptSeq(<<"Red", "Blue">>))>>),
      Object(<<SectionEntry("a", "Letter",
                            Some(<<Span("c3", TRUE, TRUE, "Picks"), Text(Reference("picks")),
                                   M1, Text(Reference("c1"))>>),
                            Some(TRUE))>>,
             <<ComponentEntry("c1", TextField, "Name", "", OptAbsent),
               ComponentEntry("c3", MultiTextField, "Picks", "picks", OptSeq(<<>>))>>),
      Object(<<SectionEntry("a", "Letter",
                            Some(<<M1, Span("c3", TRUE, TRUE, "Picks")>>), Some(TRUE))>>,
             <<ComponentEntry("c1", TextField, "Name", "picks", OptAbsent),
               ComponentEntry("c3", MultiTextField, "Picks", "picks",
                              OptSeq(<<"Red", "Blue">>))>>) }

\* the editor once it has created its default section, imported file and
\* run the injections the import schedules
importedEditor(file) ==
    LET first == sectionsEffect(<<Section(generateSectionId(0), "Section 1", <<>>, TRUE)>>,
                                [id \in {} |-> <<>>], EmptyStore, FALSE, <<>>, <<>>)
        secs == importedSections(file, 1)
        comps == importedComponents(file)
        st == importedStore(file, EmptyStore)
        after == sectionsEffect(secs, first.dom, st, FALSE, comps,
                                importedTimers(file, 1, FALSE, <<>>, first.timers))
    IN  [sections |-> secs, components |-> comps, store |-> st,
         dom |-> settledDom(after.timers, after.dom, st)]

FillInit ==
    \E file \in FillFiles :
        LET editor == importedEditor(file)
        IN  /\ sections = editor.sections
            /\ components = editor.components
            /\ store = editor.store
            /\ dom = editor.dom
            /\ timers = <<>>
            /\ isLocked = FALSE
            /\ errorMessage = MsgNone
            /\ initialized = TRUE
            /\ fillModalOpen = FALSE
            /\ sectionIdCounter = 1 + importedIds(file)
            /\ componentIdCounter = 0
            /\ sectionStates = [id \in {} |-> TRUE]
            /\ sectionComponentsMap = [id \in {} |-> <<>>]
            /\ fieldValues = NoFieldValues
            /\ formStep = "filling"
            /\ previewContent = <<>>
            /\ clipboard = <<>>
            /\ steps = 0

FillNext ==
    \/ openFillTemplate
    \/ closeFillTemplate
    \/ \E id \in sectionIds(sections) : toggleSection(id)
    \/ \E component \in shownComponents :
          \E str \in TypedStrings \cup SeqToSet(optionsOf(component)) :
              handleFieldChange(component, str)
    \/ \E component \in shownComponents :
          \E index \in 1..Len(optionsOf(component)) :
              handleCheckboxChange(component, index)
    \/ generatePreview
    \/ backToForm

FillSpec == FillInit /\ [][FillNext]_vars

(***************************************************************************)
(* Properties of the fill sessions.                                        *)
(***************************************************************************)
\* C12: whenever the fill modal is opened, the session it starts is in step
\* 'filling' (the form is shown, not a preview of an earlier session).
FillSessionStartsFilling ==
    [][(~fillModalOpen /\ fillModalOpen') => formStep' = "filling"]_vars

\* the value the claim prescribes for a component of that type
prescribedInitial(component) ==
    IF component.type = TextField THEN StringValue("")
    ELSE IF component.type = Dropdown
    THEN StringValue(IF component.options.k = "seq" /\ Len(component.options.v) > 0
                     THEN component.options.v[1] ELSE "")
    ELSE FlagsValue([i \in 1..(IF component.options.k = "seq"
                               THEN Len(component.options.v) ELSE 0) |-> FALSE])

\* C13: when the fill modal opens, every visible component (every component
\* of the canonical list handed to the modal) has a field value under its
\* key, and that value is the initial value of the component's own type.
InitialFieldValues ==
    [][openFillTemplate =>
          \A i \in 1..Len(components') :
              /\ keyOf(components'[i]) \in DOMAIN fieldValues'
              /\ fieldValues'[keyOf(components'[i])] = prescribedInitial(components'[i])]_vars

\* the preview generatePreview would produce from the current values
previewOf(values, states) ==
    fullPreviewContent(sections, states, values, mapOrder(sections), sectionComponentsMap)

\* C14: backToForm changes formStep and nothing else, and the field values
\* and inclusion flags the form shows again are those the preview on screen
\* was generated from (generating from them gives that same preview).
BackToFormRetainsValues ==
    [][backToForm =>
          /\ formStep' = "filling"
          /\ UNCHANGED <<fieldValues, sectionStates, sectionComponentsMap,
                         previewContent, sections, components, fillModalOpen>>
          /\ previewContent = previewOf(fieldValues', sectionStates')]_vars

\* the sections whose inclusion flag is true, in section order
flaggedSections ==
    SelectSeq(sections, LAMBDA sec : sec.id \in DOMAIN sectionStates /\ sectionStates[sec.id])

\* the keys of the components whose markers the map places in section id
keysIn(id) ==
    {keyOf(c) : c \in SeqToSet(componentsOfSection(sectionComponentsMap, id))}

\* name is the key of a component, and every section that holds a marker of
\* such a component is disabled
definedOnlyInDisabled(name) ==
    /\ \E id \in sectionIds(sections) : name \in keysIn(id)
    /\ \A id \in sectionIds(sections) :
          name \in keysIn(id) => ~(id \in DOMAIN sectionStates /\ sectionStates[id])

\* the names referenced in the text of a section
referencedIn(section) ==
    {name \in ReferenceNames : Text(Reference(name)) \in SeqToSet(section.content)}

\* C15: the preview generatePreview sets has one block for each section whose
\* inclusion flag is true, in section order, each the processed text of that
\* section, and none for a disabled section; and where an enabled section
\* references a variable whose component's markers are all in disabled
\* sections, the block shows the variable's value (for a string value, that
\* string) and never the placeholder [name].
DisabledSectionExclusion ==
    [][(generatePreview /\ formStep' = "preview") =>
          /\ Len(previewContent') = Len(flaggedSections)
          /\ \A k \in 1..Len(flaggedSections) :
                LET section == flaggedSections[k]
                    block == previewContent'[k]
                IN  /\ block = sectionPreview(section, fieldValues, mapOrder(sections),
                                              sectionComponentsMap)
                    /\ \A name \in referencedIn(section) :
                          (definedOnlyInDisabled(name) /\ name \in DOMAIN fieldValues) =>
                              /\ Text("[" \o name \o "]") \notin SeqToSet(block)
                              /\ (fieldValues[name].k = "string" /\ fieldValues[name].s # "")
                                    => Text(fieldValues[name].s) \in SeqToSet(block)]_vars

\* a preview of the first section only, the second being disabled, that shows
\* the value of the drop-down whose marker is in the second section
DisabledSectionPreviewed ==
    /\ fillModalOpen /\ formStep = "preview"
    /\ Len(sections) = 2
    /\ sectionStates[sections[1].id] /\ ~sectionStates[sections[2].id]
    /\ Len(previewContent) = 1
    /\ "status" \in DOMAIN fieldValues
    /\ Text(Reference("status")) \in SeqToSet(sections[1].content)
    /\ "status" \in keysIn(sections[2].id) /\ "status" \notin keysIn(sections[1].id)
    /\ Text(fieldValues["status"].s) \in SeqToSet(previewContent[1])

\* the concatenation of a sequence of strings
RECURSIVE flatten(_)
flatten(strings) ==
    IF strings = <<>> THEN <<>> ELSE Head(strings) \o flatten(Tail(strings))

\* what generatePreview makes of one node of a section's content
renderedNode(section, i) ==
    sectionPreview([section EXCEPT !.content = <<section.content[i]>>], fieldValues,
                   mapOrder(sections), sectionComponentsMap)

\* the components of the form, and those of one section
formComponents == mapComponents(mapOrder(sections), sectionComponentsMap)
markedComponent(section, i) ==
    LET own == componentsOfSection(sectionComponentsMap, section.id)
    IN  own[CHOOSE j \in 1..Len(own) : own[j].id = section.content[i].id]

\* node i of the section is a marker of one of the section's components
IsFilledMarker(section, i) ==
    /\ IsMarker(section.content[i])
    /\ \E c \in SeqToSet(componentsOfSection(sectionComponentsMap, section.id)) :
          c.id = section.content[i].id

\* the flags of a multi-choice component: its field value
flagsOf(component) ==
    IF keyOf(component) \in DOMAIN fieldValues /\ fieldValues[keyOf(component)].k = "flags"
    THEN fieldValues[keyOf(component)].flags
    ELSE [i \in 1..Len(optionsOf(component)) |-> FALSE]

\* the multi-choice components a reference {name} refers to
multiChoiceNamed(name) ==
    {c \in SeqToSet(formComponents) : c.type = MultiTextField /\ keyOf(c) = name}

\* the block of a section in which the multi-choice markers and the
\* references to multi-choice components read as the claim prescribes, and
\* every other node as generatePreview renders it
multiChoiceBlock(section) ==
    flatten([i \in 1..Len(section.content) |->
        IF IsFilledMarker(section, i) /\ markedComponent(section, i).type = MultiTextField
        THEN LET c == markedComponent(section, i)
             IN  join(selectedFrom(optionsOf(c), flagsOf(c), 1), "<br>")
        ELSE IF /\ IsReference(section.content[i])
                /\ multiChoiceNamed(referenceName(section.content[i])) # {}
        THEN LET c == CHOOSE m \in multiChoiceNamed(referenceName(section.content[i])) : TRUE
                 chosen == selectedFrom(optionsOf(c), flagsOf(c), 1)
             IN  IF chosen = <<>> THEN <<Text("[None selected]")>> ELSE join(chosen, ", ")
        ELSE renderedNode(section, i)])

\* C16: in the preview generatePreview sets, the marker of a multi-choice
\* component reads as its selected options, in option order, joined with
\* <br> (nothing when none is selected), and a reference {variableName} to a
\* multi-choice component reads as the selected options joined with ", ", or
\* as [None selected] when none is selected.
MultiChoiceSubstitution ==
    [][(generatePreview /\ formStep' = "preview") =>
          \A k \in 1..Len(flaggedSections) :
              previewContent'[k] = multiChoiceBlock(flaggedSections[k])]_vars

\* the component's field value is a string
hasStringValue(key) == key \in DOMAIN fieldValues /\ fieldValues[key].k = "string"

\* the block of a section in which a substituted string value (put in place
\* of a text-field or drop-down marker, or of a reference) reads as the value
\* itself, and every other node as generatePreview renders it
singlePassBlock(section) ==
    flatten([i \in 1..Len(section.content) |->
        IF /\ IsFilledMarker(section, i)
           /\ markedComponent(section, i).type # MultiTextField
           /\ hasStringValue(keyOf(markedComponent(section, i)))
        THEN asText(fieldValues[keyOf(markedComponent(section, i))].s)
        ELSE IF /\ IsReference(section.content[i])
                /\ hasStringValue(referenceName(section.content[i]))
        THEN asText(fieldValues[referenceName(section.content[i])].s)
        ELSE renderedNode(section, i)])

\* C17: in the preview generatePreview sets, a string value put in place of
\* a marker or of a reference appears as it was entered: a {name} pattern
\* inside the value is not expanded.
SinglePassSubstitution ==
    [][(generatePreview /\ formStep' = "preview") =>
          \A k \in 1..Len(flaggedSections) :
              previewContent'[k] = singlePassBlock(flaggedSections[k])]_vars

\* the block of a section in which a reference without field value reads
\* [name] and a reference to a string value reads as that value, and every
\* other node as generatePreview renders it
placeholderBlock(section) ==
    flatten([i \in 1..Len(section.content) |->
        IF IsReference(section.content[i])
        THEN LET name == referenceName(section.content[i])
             IN  IF name \notin DOMAIN fieldValues THEN <<Text("[" \o name \o "]")>>
                 ELSE IF fieldValues[name].k = "string"
                 THEN (IF fieldValues[name].s = "" THEN <<>>
                       ELSE <<Text(fieldValues[name].s)>>)
                 ELSE renderedNode(section, i)
        ELSE renderedNode(section, i)])

\* C18: in the preview generatePreview sets, every {name} in the text of an
\* enabled section reads [name] when no field value exists under name, and
\* reads as the value when a string value exists under name.
MissingVariablePlaceholder ==
    [][(generatePreview /\ formStep' = "preview") =>
          \A k \in 1..Len(flaggedSections) :
              previewContent'[k] = placeholderBlock(flaggedSections[k])]_vars

(***************************************************************************)
(* Properties of the editor: snapshot, lock, injection, repair.            *)
(***************************************************************************)
\* C29: getEditorData returns the sections (id, title, content, enabled, in
\* order) and the components list that exportTemplate writes in that state.
SnapshotAgreesWithExport ==
    EditorUsable => getEditorData(sections, dom, store) = templateData(sections, dom, store)

\* C27: after openFillTemplate, the record of every rendered section (the
\* content the fill modal receives) holds the live content that section had
\* when openFillTemplate was called.
FillOpensWithLiveContent ==
    [][openFillTemplate =>
          \A i \in 1..Len(sections) :
              hasElement(dom, sections[i].id)
                  => sections'[i].content = innerHTML(dom[sections[i].id])]_vars

(***************************************************************************)
(* Editing sessions: the author edits the components of an imported        *)
(* template through the component dialog, and locks or unlocks it.         *)
(***************************************************************************)
\* the dialog is opened on a marker, filled in and saved
editComponent(component, label, variableName, optionsList) ==
    handleSaveComponent(handleSave(component, label, variableName, optionsList))

SubmittedMetadata ==
    {Component(component.id, component.type, label, variableName, options) :
        component \in editableComponents, label \in SubmittedLabels,
        variableName \in SubmittedNames, options \in SubmittedOptions}

EditNext ==
    \/ \E component \in editableComponents :
          \E optionsList \in {<<>>, <<"Yes">>} :
              editComponent(component, "Renamed", "alias", optionsList)
    \/ \E updatedMetadata \in SubmittedMetadata : handleSaveComponent(updatedMetadata)
    \/ toggleLock

EditSpec == FillInit /\ [][EditNext]_vars

hasChoices(type) == type \in {Dropdown, MultiTextField}

\* C25: when handleSaveComponent runs on an unlocked template for a
\* component the store holds, the stored component then has a label and a
\* variable name that are strings and, if it is a single-choice or a
\* multi-choice component, a non-empty options list, which is the list of
\* the type's three defaults when the submitted options were missing, not a
\* sequence or empty.
SavedComponentWellFormed ==
    [][\A updatedMetadata \in
            SubmittedMetadata \cup
            {handleSave(component, "Renamed", "alias", optionsList) :
                component \in editableComponents, optionsList \in {<<>>, <<"Yes">>}} :
          (/\ handleSaveComponent(updatedMetadata)
           /\ ~isLocked
           /\ updatedMetadata.id \in DOMAIN store)
          => LET saved == store'[updatedMetadata.id]
             IN  /\ saved.label # Undefined
                 /\ saved.variableName # Undefined
                 /\ hasChoices(saved.type)
                        => saved.options.k = "seq" /\ saved.options.v # <<>>
                 /\ (/\ hasChoices(updatedMetadata.type)
                     /\ \/ updatedMetadata.options.k # "seq"
                        \/ updatedMetadata.options.v = <<>>)
                        => saved.options = DefaultOptions(saved.type)]_vars

\* a multi-choice component saved with its options backfilled
SavedWithDefaultOptions ==
    \E id \in DOMAIN store :
        /\ store[id].type = MultiTextField
        /\ store[id].label = "Renamed"
        /\ store[id].options = MultiDefaults

\* C26: while the template is locked, insertComponent, handleSaveComponent
\* and a click on the remove affordance of any marker (removeComponent),
\* whenever the affordance was created, leave the component store and the
\* content of every section unchanged.
LockedTemplateFrozen ==
    [][(/\ isLocked
        /\ \/ \E sectionId \in DOMAIN dom :
                 \E i \in 1..Len(dom[sectionId]) : clickDelete(sectionId, i)
           \/ \E type \in ComponentTypes, sectionId \in DOMAIN dom :
                 \E pos \in 0..Len(dom[sectionId]) : insertComponent(type, sectionId, pos)
           \/ \E updatedMetadata \in SubmittedMetadata :
                 handleSaveComponent(updatedMetadata))
       => /\ store' = store
          /\ liveContents(sections, dom') = liveContents(sections, dom)]_vars

\* C30: a removal started from a marker's remove affordance removes only
\* that component: every other component that was in the components list
\* and in the store is in both afterwards.
RemovalKeepsOtherComponents ==
    [][\A sectionId \in DOMAIN dom :
          \A i \in 1..Len(dom[sectionId]) :
              clickDelete(sectionId, i)
                  => \A c \in SeqToSet(components) :
                        (c.id # dom[sectionId][i].id /\ c.id \in DOMAIN store)
                            => /\ c \in SeqToSet(components')
                               /\ c.id \in DOMAIN store'
                               /\ store'[c.id] = store[c.id]]_vars

\* C28: a delayed injection installs no stale content: whenever the expiry
\* of a timer changes the live content of a section, the content it
\* installs is the (repaired) content that a record of that section holds at
\* that moment.
DelayedInjectionNotStale ==
    [][timerExpires =>
          \A id \in DOMAIN dom :
              innerHTML(dom'[id]) # innerHTML(dom[id])
                  => \E i \in 1..Len(sections) :
                        /\ sections[i].id = id
                        /\ innerHTML(dom'[id]) =
                              innerHTML(processImportedComponents(sections[i].content,
                                                                  store, NoListener))]_vars

\* the delayed injections a step leaves pending beyond those that were
\* pending before it and that the effect's cleanup did not cancel
addedTimers == Len(timers') - Len(clearEffectTimer(timers))

\* C21: a change of the sections leaves at most one delayed injection
\* pending for it; after an import it leaves one pending only if the
\* immediate attempt, made on the elements the render provides, injected
\* nothing; the expiry of a delayed attempt schedules no further attempt.
InjectionRetriedAtMostOnce ==
    [][/\ sections' # sections => addedTimers <= 1
       /\ (/\ sections' # sections
           /\ \E file \in ImportFiles \cup {exportedFile} : importTemplate(file)
           /\ addedTimers > 0)
          => ~injectSectionContent(sections', 1, render(sections', dom),
                                   store', NoListener).done
       /\ timerExpires => Len(timers') < Len(timers)]_vars

\* the contents repair is applied to: the content of every section record
\* and the live content of every rendered section
repairedContents ==
    {sections[i].content : i \in 1..Len(sections)} \cup {dom[id] : id \in DOMAIN dom}

\* every span whose id the store knows is a tagged marker that holds a
\* remove affordance and shows the label the store has for it
wellFormed(nodes, st) ==
    \A i \in 1..Len(nodes) :
        (nodes[i].kind = "span" /\ nodes[i].id \in DOMAIN st)
            => /\ nodes[i].dc
               /\ nodes[i].del
               /\ nodes[i].lab = st[nodes[i].id].label

\* C22: with the store unchanged, a second application of
\* processImportedComponents (by another render) leaves a content exactly as
\* the first application left it, and an application to well-formed content
\* changes nothing.
RepairIdempotent ==
    \A nodes \in repairedContents :
        LET first == Listener(isLocked, components)
            second == Listener(~isLocked, <<>>)
            once == processImportedComponents(nodes, store, first)
        IN  /\ processImportedComponents(once, store, second) = once
            /\ wellFormed(nodes, store)
                  => processImportedComponents(nodes, store, second) = nodes

\* a section record whose content the repair changes: a span of it is
\* re-tagged, relabelled or given its remove affordance
RepairChangesContent ==
    \E i \in 1..Len(sections) :
        LET once == processImportedComponents(sections[i].content, store,
                                              Listener(isLocked, components))
        IN  /\ once # sections[i].content
            /\ wellFormed(once, store)
            /\ ~wellFormed(sections[i].content, store)

\* what a run of generatePreview on the given inputs produces: the block of
\* every included section, in section order
rerunPreview(secs, states, values, componentMap) ==
    LET included == SelectSeq(secs, LAMBDA section : isIncluded(states, section.id))
    IN  [i \in 1..Len(included) |->
            sectionPreview(included[i], values, mapOrder(secs), componentMap)]

MaxBlockLen == 4

BlockNodes == {Text("<br>"), Text("Ann"), Text(" "), Paragraph("Ann")}

Blocks == UNION {[1..n -> BlockNodes] : n \in 0..MaxBlockLen}

ClipPreviews ==
    {<<block>> : block \in Blocks}
        \cup {<<block, <<Text("Bob"), Text("<br>")>>>> : block \in Blocks}
        \cup {<<<<Text(" ")>>, block, <<>>, <<Text("Bob")>>>> : block \in Blocks}

ClipInit ==
    \E html \in ClipPreviews :
        LET file == CHOOSE f \in FillFiles : Len(f.sections.v) = 2
            editor == importedEditor(file)
            secs == sectionsAfterFillOpen(editor.sections, editor.dom)
            comps == orderedVisibleComponents(editor.sections, editor.dom, editor.store)
            componentMap == createSectionComponentsMap(secs, comps)
            after == sectionsEffect(secs, editor.dom, editor.store, FALSE, comps, <<>>)
        IN  /\ sections = secs
            /\ components = comps
            /\ store = editor.store
            /\ dom = after.dom
            /\ timers = after.timers
            /\ isLocked = FALSE
            /\ errorMessage = MsgNone
            /\ initialized = TRUE
            /\ fillModalOpen = TRUE
            /\ sectionIdCounter = 1 + importedIds(file)
            /\ componentIdCounter = 0
            /\ sectionStates = initialSectionStates(secs)
            /\ sectionComponentsMap = componentMap
            /\ fieldValues = initializeFieldValues(secs, componentMap)
            /\ formStep = "preview"
            /\ previewContent = html
            /\ clipboard = <<>>
            /\ steps = 1

ClipNext ==
    \/ copyToClipboard
    \/ backToForm
    \/ generatePreview

ClipSpec == ClipInit /\ [][ClipNext]_vars

noNewlineRun(text) ==
    \A i \in 1..(Len(text) - 2) :
        ~(text[i] = Newline /\ text[i + 1] = Newline /\ text[i + 2] = Newline)

\* the texts with a double newline between every two of them
separated(texts) ==
    flatten([i \in 1..(2 * Len(texts) - 1) |->
                IF i % 2 = 1 THEN texts[(i + 1) \div 2] ELSE <<Newline, Newline>>])

\* C24: the text copyToClipboard writes is the texts of the section blocks
\* that are not empty, in the order of the blocks, with exactly a double
\* newline between every two of them, and it holds no run of three or more
\* newlines.
ClipboardFlattening ==
    [][copyToClipboard
          => /\ clipboard' = separated(textSections(previewContent))
             /\ \A i \in 1..Len(textSections(previewContent)) :
                   textSections(previewContent)[i] # <<>>
             /\ noNewlineRun(clipboard')]_vars

\* a copied text of two section blocks, one of which held a run of three
\* or more newlines before it was flattened
CollapsedTextCopied ==
    /\ clipboard # <<>>
    /\ clipboard = joinTexts(textSections(previewContent))
    /\ Len(textSections(previewContent)) = 2
    /\ \E i \in 1..Len(previewContent) :
          /\ ~noNewlineRun(trim(textContent(previewContent[i])))
          /\ sectionText(previewContent[i]) # <<>>

====
